---- MODULE Spec2Model ----
(***************************************************************************)
(* weather-insights: the preprocessing pipeline (src/preprocess.py), the   *)
(* baseline forecasters (src/modeling/baselines.py) and the evaluation     *)
(* runs that append to the metrics log (src/modeling/backtest.py,          *)
(* src/modeling/ml_regressor.py).                                          *)
(*                                                                         *)
(* Dates are day numbers counted from 1970-01-01.  A numeric cell is an    *)
(* exact rational <<numerator, denominator>> in lowest terms with a        *)
(* positive denominator; the missing value NaN is <<0, 0>>.  A data frame  *)
(* is a sequence of row records; row k of the model is .iloc[k-1].         *)
(***************************************************************************)
EXTENDS Integers, Sequences, FiniteSets, TLC

VARIABLES
    \* preprocess.main, one run
    pc,        \* position of preprocess.main
    infile,    \* rows of the raw CSV handed to preprocess.main (--in)
    df,        \* the data frame preprocess.main is working on
    outfile,   \* rows of the processed CSV (--out), <<>> until written
    \* the feature builder on a series and on a copy changed after a date
    base,      \* the normalized frame handed to add_calendar / add_lags_rolls
    changed,   \* the same frame with target values changed after `boundary`
    boundary,  \* the row d up to which the two frames agree
    featBase,  \* the features built from base
    featChanged, \* the features built from changed
    \* the baseline forecasters on one series
    series,    \* the series handed to naive / seasonal_naive
    period,    \* the period handed to seasonal_naive
    called,    \* which forecasters have returned
    out_naive, \* naive(series), once called
    out_seasonal, \* seasonal_naive(series, period), once called
    \* evaluation runs against one metrics file
    dataset,   \* rows of the processed CSV the runs read (--dataset)
    metrics,   \* the metrics file: [exists, rows]
    history,   \* the records of the runs that got to write, in run order
    lastRun    \* how the last run ended

preVars == <<pc, infile, df, outfile>>
featVars == <<base, changed, boundary, featBase, featChanged>>
baseVars == <<series, period, called, out_naive, out_seasonal>>
evalVars == <<dataset, metrics, history, lastRun>>
vars == <<preVars, featVars, baseVars, evalVars>>

---------------------------------------------------------------------------
(* Bounds of the model                                                     *)

MaxDay == 6        \* small inputs hold dates StartDay .. StartDay + MaxDay
MedDay == 32       \* medium inputs hold dates StartDay .. StartDay + MedDay
MaxGap == 5        \* longest run of absent dates in a medium input
MaxFuture == 5     \* the feature builder is watched on the last MaxFuture rows
MaxLen == 5        \* longest series handed to the baseline forecasters
MaxPeriod == 3     \* largest period handed to seasonal_naive
MaxRuns == 3       \* evaluation runs against one metrics file
StartDay == 17530  \* day number of the first candidate date (2017-12-30)

(* Program constants                                                       *)

InterpLimit == 3
RollShort == 7
RollLong == 30
SplitDays == 364
WeekendFrom == 5

Lags == <<1, 7, 14>>

---------------------------------------------------------------------------
(* Exact arithmetic on cells                                               *)

NaN == <<0, 0>>

Abs(n) == IF n < 0 THEN -n ELSE n

RECURSIVE GCD(_, _)
GCD(a, b) == IF b = 0 THEN a ELSE GCD(b, a % b)

\* NaN propagates through arithmetic.
Rat(n, d) ==
    IF d = 0 THEN NaN
    ELSE LET g == GCD(Abs(n), d) IN <<n \div g, d \div g>>

Num(n) == <<n, 1>>

RAdd(a, b) == Rat(a[1] * b[2] + b[1] * a[2], a[2] * b[2])
RSub(a, b) == Rat(a[1] * b[2] - b[1] * a[2], a[2] * b[2])
RMul(a, b) == Rat(a[1] * b[1], a[2] * b[2])
RDivInt(a, k) == Rat(a[1], a[2] * k)
RAbs(a) == <<Abs(a[1]), a[2]>>

isna(c) == c = NaN

\* A function over 1..n as an explicit sequence.
Materialize(f, n) == SubSeq(f, 1, n)

SetMax(S) == CHOOSE x \in S : \A y \in S : y <= x
SetMin(S) == CHOOSE x \in S : \A y \in S : x <= y

\* The sum of f[lo..hi], by halving.
RECURSIVE RSum(_, _, _)
RSum(f, lo, hi) ==
    IF lo > hi THEN Num(0)
    ELSE IF lo = hi THEN f[lo]
    ELSE LET mid == (lo + hi) \div 2
         IN RAdd(RSum(f, lo, mid), RSum(f, mid + 1, hi))

---------------------------------------------------------------------------
(* Series operations of the library calls the sources make                 *)

\* The variant that reads k positions later instead.
shift_lead(col, k) ==
    Materialize([i \in 1..Len(col) |->
                    IF i + k >= 1 /\ i + k <= Len(col) THEN col[i + k] ELSE NaN],
                Len(col))

\* Series.shift(k): position i takes the value k positions earlier, and is
\* missing where there is none.
shift(col, k) ==
    Materialize([i \in 1..Len(col) |->
                    IF i - k >= 1 /\ i - k <= Len(col) THEN col[i - k] ELSE NaN],
                Len(col))

\* Series.fillna(other) on two series with the same index.
fillna(col, other) ==
    Materialize([i \in 1..Len(col) |-> IF isna(col[i]) THEN other[i] ELSE col[i]],
                Len(col))

\* Series.interpolate(limit=InterpLimit): linear on positions, filling
\* forward.  A missing cell with no known value before it stays missing; a
\* missing cell more than `limit` positions after the last known value
\* stays missing; a missing cell with no known value after it takes the
\* last known value; any other missing cell lies on the straight line
\* between its nearest known neighbours.
interpolate(col, limit) ==
    LET n == Len(col)
        known == {j \in 1..n : ~isna(col[j])}
        cell(i) ==
            IF i \in known THEN col[i]
            ELSE LET before == {j \in known : j < i}
                     after == {j \in known : j > i}
                 IN IF before = {} THEN NaN
                    ELSE LET p == SetMax(before)
                         IN IF i - p > limit THEN NaN
                            ELSE IF after = {} THEN col[p]
                            ELSE LET q == SetMin(after)
                                 IN RAdd(col[p],
                                         RDivInt(RMul(RSub(col[q], col[p]),
                                                      Num(i - p)),
                                                 q - p))
    IN Materialize([i \in 1..n |-> cell(i)], n)

\* Series.rolling(w): the window of row i is rows i-w+1 .. i (cut at the
\* first row).  An aggregate is taken over the known values of the window
\* and is NaN unless there are at least min_periods of them; min_periods
\* defaults to the window length w.
Observed(col, w, i) ==
    {j \in (IF i - w + 1 >= 1 THEN i - w + 1 ELSE 1)..i : ~isna(col[j])}

\* The variant with min_periods = 1.
rolling_min_periods_one(col, w, i) == Cardinality(Observed(col, w, i)) >= 1

WindowFull(col, w, i) == Cardinality(Observed(col, w, i)) >= w

\* The sum of the known values among f[lo..hi].
KnownSum(f, lo, hi) ==
    RSum([j \in lo..hi |-> IF isna(f[j]) THEN Num(0) ELSE f[j]], lo, hi)

rolling_mean(col, w) ==
    Materialize([i \in 1..Len(col) |->
                    IF WindowFull(col, w, i)
                    THEN LET lo == IF i - w + 1 >= 1 THEN i - w + 1 ELSE 1
                         IN RDivInt(KnownSum(col, lo, i),
                                    Cardinality(Observed(col, w, i)))
                    ELSE NaN],
                Len(col))

\* Series.rolling(w).std(): the sample standard deviation (ddof = 1), NaN on
\* fewer than two values.  The cell holds the exact sample variance, whose
\* square root the code stores.
rolling_std(col, w) ==
    LET sq == [j \in 1..Len(col) |-> RMul(col[j], col[j])]
    IN Materialize([i \in 1..Len(col) |->
                    IF WindowFull(col, w, i) /\ Cardinality(Observed(col, w, i)) >= 2
                    THEN LET lo == IF i - w + 1 >= 1 THEN i - w + 1 ELSE 1
                             n == Cardinality(Observed(col, w, i))
                             s == KnownSum(col, lo, i)
                             ss == KnownSum(sq, lo, i)
                         IN RDivInt(RSub(RMul(Num(n), ss), RMul(s, s)), n * (n - 1))
                    ELSE NaN],
                Len(col))

\* DatetimeIndex.dayofweek: Monday = 0 .. Sunday = 6 (1970-01-01 is a Thursday).
dayofweek(day) == (day + 3) % 7

\* DatetimeIndex.month of a day number (proleptic Gregorian calendar).
month(day) ==
    LET z == day + 719468
        era == z \div 146097
        doe == z - era * 146097
        yoe == (doe - doe \div 1460 + doe \div 36524 - doe \div 146096) \div 365
        doy == doe - (365 * yoe + yoe \div 4 - yoe \div 100)
        mp == (5 * doy + 2) \div 153
    IN IF mp < 10 THEN mp + 3 ELSE mp - 9

Column(frame, name) ==
    Materialize([k \in 1..Len(frame) |-> frame[k][name]], Len(frame))

\* frame with column `name` set to the series col (a new column when absent).
WithColumn(frame, name, col) ==
    Materialize([k \in 1..Len(frame) |->
                    [f \in (DOMAIN frame[k]) \cup {name} |->
                        IF f = name THEN col[k] ELSE frame[k][f]]],
                Len(frame))

---------------------------------------------------------------------------
(* preprocess.py                                                           *)

NumericCols == {"tmin", "tmax", "tavg", "precip", "wind_max", "lat", "lon"}

Columns(frame) == IF frame = <<>> THEN {} ELSE DOMAIN frame[1]

\* set_index("date").sort_index(): the rows in ascending date order.
sort_index(frame) ==
    LET n == Len(frame)
        rank == Materialize([j \in 1..n |->
                    Cardinality({m \in 1..n : frame[m].date < frame[j].date})], n)
        at == Materialize([k \in 1..n |-> CHOOSE j \in 1..n : rank[j] = k - 1], n)
    IN Materialize([k \in 1..n |-> frame[at[k]]], n)

index_min(frame) == SetMin({frame[k].date : k \in 1..Len(frame)})
index_max(frame) == SetMax({frame[k].date : k \in 1..Len(frame)})

\* pd.date_range(start, end, freq="D")
date_range(start, end) ==
    Materialize([k \in 1..(end - start + 1) |-> start + k - 1], end - start + 1)

\* The variant that keeps the frame's own index.
reindex_skipped(frame, idx) == frame

\* df.reindex(idx): one row per label of idx, the frame's row where the
\* label is in its index and an all-missing row elsewhere.
reindex(frame, idx) ==
    LET cols == Columns(frame) \ {"date"}
        missing(d) == [f \in cols \cup {"date"} |->
                        IF f = "date" THEN d
                        ELSE IF f = "location" THEN "" ELSE NaN]
        row(d) == IF \E k \in 1..Len(frame) : frame[k].date = d
                  THEN frame[CHOOSE k \in 1..Len(frame) : frame[k].date = d]
                  ELSE missing(d)
    IN Materialize([k \in 1..Len(idx) |-> row(idx[k])], Len(idx))

\* Lines 41-43: every numeric column the frame has is interpolated.
RECURSIVE InterpolateColumns(_, _)
InterpolateColumns(frame, cols) ==
    IF cols = {} THEN frame
    ELSE LET c == CHOOSE x \in cols : TRUE
         IN InterpolateColumns(
                WithColumn(frame, c, interpolate(Column(frame, c), InterpLimit)),
                cols \ {c})

\* Series.ffill().bfill() on the location labels ("" is the missing label).
ffill_bfill(col) ==
    LET n == Len(col)
        known == {j \in 1..n : col[j] # ""}
        cell(i) ==
            IF i \in known THEN col[i]
            ELSE IF \E j \in known : j < i
                 THEN col[SetMax({j \in known : j < i})]
            ELSE IF \E j \in known : j > i
                 THEN col[SetMin({j \in known : j > i})]
            ELSE ""
    IN Materialize([i \in 1..n |-> cell(i)], n)

add_calendar(frame) ==
    Materialize([k \in 1..Len(frame) |->
        LET dow == dayofweek(frame[k].date)
        IN [f \in (DOMAIN frame[k]) \cup {"dow", "month", "is_weekend"} |->
                IF f = "dow" THEN dow
                ELSE IF f = "month" THEN month(frame[k].date)
                ELSE IF f = "is_weekend" THEN (IF dow >= WeekendFrom THEN 1 ELSE 0)
                ELSE frame[k][f]]],
        Len(frame))

add_lags_rolls(frame, col) ==
    LET y == Column(frame, col)
        lag1 == shift(y, Lags[1])
        lag7 == shift(y, Lags[2])
        lag14 == shift(y, Lags[3])
        mean7 == rolling_mean(y, RollShort)
        std7 == rolling_std(y, RollShort)
        mean30 == rolling_mean(y, RollLong)
    IN Materialize([k \in 1..Len(frame) |->
        [f \in (DOMAIN frame[k]) \cup
               {"tavg_lag_1", "tavg_lag_7", "tavg_lag_14",
                "tavg_roll_mean_7", "tavg_roll_std_7", "tavg_roll_mean_30"} |->
            IF f = "tavg_lag_1" THEN lag1[k]
            ELSE IF f = "tavg_lag_7" THEN lag7[k]
            ELSE IF f = "tavg_lag_14" THEN lag14[k]
            ELSE IF f = "tavg_roll_mean_7" THEN mean7[k]
            ELSE IF f = "tavg_roll_std_7" THEN std7[k]
            ELSE IF f = "tavg_roll_mean_30" THEN mean30[k]
            ELSE frame[k][f]]],
        Len(frame))

\* The variant with a strict comparison.
is_test_flag_strict(date, last) == IF date > last - SplitDays THEN 1 ELSE 0

\* Line 53: the test flag of one date, given the last date of the index.
is_test_flag(date, last) == IF date >= last - SplitDays THEN 1 ELSE 0

mark_test(frame) ==
    LET last == index_max(frame)
    IN Materialize([k \in 1..Len(frame) |->
        [f \in (DOMAIN frame[k]) \cup {"is_test"} |->
            IF f = "is_test" THEN is_test_flag(frame[k].date, last)
            ELSE frame[k][f]]],
        Len(frame))

---------------------------------------------------------------------------
(* Raw inputs: at most one observation per date                            *)

TavgAt(o) == Num(10 + ((o * o) % 7))
PrecipAt(o) == Num(o % 3)

\* The observations of dates StartDay + o, o in 0..hi and not in absent, in
\* ascending order; the tavg cell is missing on the offsets in nulls and the
\* precip cell on the offsets one before them.
RawRows(hi, absent, nulls) ==
    LET row(o) == [date |-> StartDay + o,
                   tavg |-> IF o \in nulls THEN NaN ELSE TavgAt(o),
                   precip |-> IF (o + 1) \in nulls THEN NaN ELSE PrecipAt(o),
                   location |-> "Austin,US"]
        observed(r) == (r.date - StartDay) \notin absent
    IN SelectSeq([k \in 1..(hi + 1) |-> row(k - 1)], observed)

Orders == {"ascending", "descending", "rotated"}

\* The row order of the file: preprocess.main does not assume any.
Permute(rows, order) ==
    LET n == Len(rows)
    IN IF order = "descending" THEN Materialize([k \in 1..n |-> rows[n + 1 - k]], n)
       ELSE IF order = "rotated" THEN Materialize([k \in 1..n |-> rows[(k % n) + 1]], n)
       ELSE rows

Interval(a, len) == a..(a + len - 1)

SmallInputs ==
    {Permute(RawRows(MaxDay, in[1], in[2]), in[3]) :
        in \in {x \in (SUBSET (0..MaxDay)) \X (SUBSET (0..MaxDay)) \X Orders :
                    x[1] \cap x[2] = {}}}

MediumInputs ==
    {Permute(RawRows(MedDay, Interval(in[1], in[2]), in[3]), in[4]) :
        in \in {3, 15} \X (0..MaxGap) \X {{}, {0}, {MedDay}} \X {"ascending", "descending"}}

LongInputs ==
    {RawRows(hi, ab, {}) :
        hi \in {SplitDays - 1, SplitDays, SplitDays + 1, 399, 400},
        ab \in {{}, Interval(100, 4)}}

IdlePre ==
    /\ pc = "idle"
    /\ infile = <<>>
    /\ df = <<>>
    /\ outfile = <<>>

IdleFeat ==
    /\ base = <<>>
    /\ changed = <<>>
    /\ boundary = 0
    /\ featBase = <<>>
    /\ featChanged = <<>>

IdleBase ==
    /\ series = <<>>
    /\ period = 0
    /\ called = {}
    /\ out_naive = <<>>
    /\ out_seasonal = <<>>

IdleEval ==
    /\ dataset = <<>>
    /\ metrics = [exists |-> FALSE, rows |-> <<>>]
    /\ history = <<>>
    /\ lastRun = [model |-> "", raised |-> "", y_true |-> <<>>, y_pred |-> <<>>,
                  mae |-> NaN]

InitPre ==
    /\ pc = "start"
    /\ infile \in SmallInputs \cup MediumInputs \cup LongInputs
    /\ df = <<>>
    /\ outfile = <<>>

Init == InitPre /\ IdleFeat /\ IdleBase /\ IdleEval

\* Line 34: pd.read_csv(args.infile, parse_dates=["date"])
ReadCsv ==
    /\ pc = "start"
    /\ df' = infile
    /\ pc' = "read"
    /\ UNCHANGED <<infile, outfile, featVars, baseVars, evalVars>>

\* Line 35: df.set_index("date").sort_index()
SortIndex ==
    /\ pc = "read"
    /\ df' = sort_index(df)
    /\ pc' = "sorted"
    /\ UNCHANGED <<infile, outfile, featVars, baseVars, evalVars>>

\* Lines 38-39.  On an empty frame index.min() and index.max() are NaT and
\* pd.date_range raises ValueError; main has no handler.
Reindex ==
    /\ pc = "sorted"
    /\ IF df = <<>>
       THEN pc' = "error" /\ df' = df
       ELSE /\ df' = reindex(df, date_range(index_min(df), index_max(df)))
            /\ pc' = "reindexed"
    /\ UNCHANGED <<infile, outfile, featVars, baseVars, evalVars>>

\* Lines 41-43
Interpolate ==
    /\ pc = "reindexed"
    /\ df' = InterpolateColumns(df, NumericCols \cap Columns(df))
    /\ pc' = "interpolated"
    /\ UNCHANGED <<infile, outfile, featVars, baseVars, evalVars>>

\* Lines 45-46
FillLocation ==
    /\ pc = "interpolated"
    /\ df' = IF "location" \in Columns(df)
             THEN WithColumn(df, "location", ffill_bfill(Column(df, "location")))
             ELSE df
    /\ pc' = "located"
    /\ UNCHANGED <<infile, outfile, featVars, baseVars, evalVars>>

\* Line 48
AddCalendar ==
    /\ pc = "located"
    /\ df' = add_calendar(df)
    /\ pc' = "calendar"
    /\ UNCHANGED <<infile, outfile, featVars, baseVars, evalVars>>

\* Line 49
AddLagsRolls ==
    /\ pc = "calendar"
    /\ df' = add_lags_rolls(df, "tavg")
    /\ pc' = "features"
    /\ UNCHANGED <<infile, outfile, featVars, baseVars, evalVars>>

\* Line 53
MarkTest ==
    /\ pc = "features"
    /\ df' = mark_test(df)
    /\ pc' = "split"
    /\ UNCHANGED <<infile, outfile, featVars, baseVars, evalVars>>

\* Lines 55-57: df.to_csv(out, index=True)
SaveCsv ==
    /\ pc = "split"
    /\ outfile' = df
    /\ pc' = "done"
    /\ UNCHANGED <<infile, df, featVars, baseVars, evalVars>>

Next ==
    \/ ReadCsv
    \/ SortIndex
    \/ Reindex
    \/ Interpolate
    \/ FillLocation
    \/ AddCalendar
    \/ AddLagsRolls
    \/ MarkTest
    \/ SaveCsv

Spec == Init /\ [][Next]_vars

---------------------------------------------------------------------------
(* ml_regressor.py, lines 10-14 and 26-30: the rows the ridge model is     *)
(* fitted and scored on                                                    *)

FEATS == <<"tavg_lag_1", "tavg_lag_7", "tavg_lag_14",
           "tavg_roll_mean_7", "tavg_roll_std_7", "tavg_roll_mean_30",
           "dow", "month", "is_weekend">>

\* The calendar columns hold integers, which are never missing.
CalendarCols == {"dow", "month", "is_weekend"}

row_notna(row) ==
    \A i \in 1..Len(FEATS) :
        FEATS[i] \in CalendarCols \/ ~isna(row[FEATS[i]])

\* train[FEATS].dropna().index and test[FEATS].dropna().index, as positions
FitRows(frame) ==
    {k \in 1..Len(frame) : frame[k].is_test = 0 /\ row_notna(frame[k])}
ScoreRows(frame) ==
    {k \in 1..Len(frame) : frame[k].is_test = 1 /\ row_notna(frame[k])}

---------------------------------------------------------------------------
(* Properties of preprocess.main                                           *)

InDates == {infile[k].date : k \in 1..Len(infile)}

Reindexed == {"reindexed", "interpolated", "located", "calendar", "features",
              "split", "done"}

\* C1: once a non-empty input with unique dates is reindexed, the index of
\* the frame is exactly the consecutive days from the smallest to the largest
\* input date: no day is skipped and none is repeated, whatever the gaps and
\* the row order of the input.
C1_DailyIndex ==
    pc \in Reindexed =>
        /\ Len(df) = SetMax(InDates) - SetMin(InDates) + 1
        /\ \A k \in 1..Len(df) : df[k].date = SetMin(InDates) + k - 1

\* An unsorted input with absent dates has run through to the end.
C1_Witness ==
    /\ pc = "done"
    /\ Len(df) > Len(infile)
    /\ \E k \in 1..(Len(infile) - 1) : infile[k].date > infile[k + 1].date

\* The numeric column c as it is right after reindexing, before line 43.
BeforeInterpolate(c) ==
    LET sorted == sort_index(infile)
    IN Column(reindex(sorted, date_range(index_min(sorted), index_max(sorted))), c)

\* The maximal runs <<a, b>> of missing cells with a known cell on each side.
FlankedRuns(col) ==
    LET n == Len(col)
        known == {j \in 1..n : ~isna(col[j])}
        starts == {a \in 2..n : isna(col[a]) /\ (a - 1) \in known
                                /\ \E q \in known : q > a}
    IN {<<a, SetMin({q \in known : q > a}) - 1>> : a \in starts}

OnLine(col, a, b, i) ==
    RAdd(col[a - 1],
         RDivInt(RMul(RSub(col[b + 1], col[a - 1]), Num(i - a + 1)), b - a + 2))

\* C2: in every numeric column a flanked run of at most 3 missing days is
\* filled with the linear interpolation of its neighbours, and every day of
\* a flanked run of more than 3 missing days stays missing.
C2_ShortFilledLongLeft ==
    pc = "interpolated" =>
        \A c \in NumericCols \cap Columns(df) :
            LET before == BeforeInterpolate(c)
                after == Column(df, c)
            IN \A r \in FlankedRuns(before) :
                   IF r[2] - r[1] + 1 <= 3
                   THEN \A i \in r[1]..r[2] : after[i] = OnLine(before, r[1], r[2], i)
                   ELSE \A i \in r[1]..r[2] : isna(after[i])

TestRows == {k \in 1..Len(df) : df[k].is_test = 1}

\* C4: a row is test iff its date is at or after the last date minus 364
\* days; the test rows are one trailing block of at most 365 days; a series
\* of 400 days has 365 test rows and 35 train rows; a series of at most 365
\* days is all test.
C4_SplitWindow ==
    pc \in {"split", "done"} =>
        LET n == Len(df)
        IN /\ \A k \in 1..n :
                 df[k].is_test = (IF df[k].date >= df[n].date - 364 THEN 1 ELSE 0)
           /\ TestRows = (n - Cardinality(TestRows) + 1)..n
           /\ Cardinality(TestRows) <= 365
           /\ n = 400 => Cardinality(TestRows) = 365 /\ n - Cardinality(TestRows) = 35
           /\ n <= 365 => TestRows = 1..n

\* A 400-day series has been split.
C4_Witness ==
    /\ pc = "done"
    /\ Len(df) = 400
    /\ Cardinality(TestRows) = 365

\* C9: on an input without observation rows preprocess.main raises nothing.
C9_EmptyInputNoException ==
    infile = <<>> => pc # "error"

\* C10: in the processed dataset a row whose nine regression features are
\* all known has a known target, so neither the rows the ridge model is
\* fitted on nor the rows it is scored on hold a missing target.
C10_KnownFeaturesKnownTarget ==
    /\ pc \in {"features", "split", "done"} =>
           \A k \in 1..Len(df) : row_notna(df[k]) => ~isna(df[k].tavg)
    /\ pc = "done" =>
           \A k \in FitRows(outfile) \cup ScoreRows(outfile) : ~isna(outfile[k].tavg)

\* A processed dataset with a missing target somewhere and rows to fit and
\* to score on.
C10_Witness ==
    /\ pc = "done"
    /\ \E k \in 1..Len(outfile) : isna(outfile[k].tavg)
    /\ FitRows(outfile) # {}
    /\ ScoreRows(outfile) # {}

---------------------------------------------------------------------------
(* The feature builder on a frame and on a copy of it whose target values  *)
(* are changed after a date                                                *)

\* preprocess.main, lines 35-46: the frame handed to the feature builder.
normalize(rows) ==
    LET sorted == sort_index(rows)
        daily == reindex(sorted, date_range(index_min(sorted), index_max(sorted)))
        filled == InterpolateColumns(daily, NumericCols \cap Columns(daily))
    IN WithColumn(filled, "location", ffill_bfill(Column(filled, "location")))

\* preprocess.main, lines 48-49
build_features(frame) == add_lags_rolls(add_calendar(frame), "tavg")

FeatInputs ==
    {RawRows(MedDay, Interval(in[1], in[2]), in[3]) :
        in \in {<<0, 0, {}>>, <<0, 0, {0}>>, <<10, 2, {}>>, <<20, MaxGap, {}>>}}

InitFeat ==
    /\ IdlePre /\ IdleBase /\ IdleEval
    /\ \E in \in FeatInputs : base = normalize(in)
    /\ changed = base
    /\ boundary \in (Len(base) - MaxFuture)..(Len(base) - 1)
    /\ featBase = build_features(base)
    /\ featChanged = featBase

\* The target of one row after the boundary is overwritten (with a value or
\* with a missing value) and the features are built again.
ChangeFuture ==
    /\ \E j \in (boundary + 1)..Len(changed) : \E v \in {NaN, Num(99)} :
          /\ changed[j].tavg # v
          /\ changed' = [changed EXCEPT ![j].tavg = v]
    /\ featChanged' = build_features(changed')
    /\ UNCHANGED <<base, boundary, featBase, preVars, baseVars, evalVars>>

NextFeat == ChangeFuture

SpecFeat == InitFeat /\ [][NextFeat]_vars

FeatureCols == {"tavg_lag_1", "tavg_lag_7", "tavg_lag_14",
                "tavg_roll_mean_7", "tavg_roll_std_7", "tavg_roll_mean_30",
                "dow", "month", "is_weekend"}

Features(row) == [f \in FeatureCols |-> row[f]]

\* C3: the lag, rolling and calendar features of every row at or before a
\* date d are the same whatever the target values after d are.
C3_NoLookahead ==
    \A k \in 1..boundary : Features(featChanged[k]) = Features(featBase[k])

\* The row after the boundary has a different target, and the boundary row
\* has all its lags and rolling aggregates.
C3_Witness ==
    /\ boundary >= 1
    /\ changed[boundary + 1].tavg # base[boundary + 1].tavg
    /\ \A f \in FeatureCols \ {"dow", "month", "is_weekend"} :
          ~isna(featBase[boundary][f])

---------------------------------------------------------------------------
(* modeling/baselines.py                                                   *)

Period365 == 365

\* The variant that shifts the other way.
naive_shifted_back(y) == shift(y, -1)

naive(y) == shift(y, 1)

\* The variant without the fillna.
seasonal_naive_no_fallback(y, p) == shift(y, p)

seasonal_naive(y, p) ==
    LET ysn == shift(y, p)
    IN fillna(ysn, shift(y, 1))

Cells == {NaN, Num(1), Num(2)}

\* The series of tests/test_baselines.py: pd.Series(range(370))
TestSeries == Materialize([i \in 1..370 |-> Num(i - 1)], 370)

InitBase ==
    /\ IdlePre /\ IdleFeat /\ IdleEval
    /\ \/ \E n \in 0..MaxLen : series \in [1..n -> Cells] /\ period \in 1..MaxPeriod
       \/ series = TestSeries /\ period = Period365
    /\ called = {}
    /\ out_naive = <<>>
    /\ out_seasonal = <<>>

CallNaive ==
    /\ "naive" \notin called
    /\ out_naive' = naive(series)
    /\ called' = called \cup {"naive"}
    /\ UNCHANGED <<series, period, out_seasonal, preVars, featVars, evalVars>>

CallSeasonalNaive ==
    /\ "seasonal_naive" \notin called
    /\ out_seasonal' = seasonal_naive(series, period)
    /\ called' = called \cup {"seasonal_naive"}
    /\ UNCHANGED <<series, period, out_naive, preVars, featVars, evalVars>>

NextBase ==
    \/ CallNaive
    \/ CallSeasonalNaive

SpecBase == InitBase /\ [][NextBase]_vars

\* C6: naive(s) has the index of s, is missing at the first position and
\* holds s[i-1] at every later position i.
C6_NaiveIsShiftByOne ==
    "naive" \in called =>
        /\ DOMAIN out_naive = DOMAIN series
        /\ Len(series) >= 1 => isna(out_naive[1])
        /\ \A i \in 2..Len(series) : out_naive[i] = series[i - 1]

\* naive has returned on a series of three or more known, changing values.
C6_Witness ==
    /\ "naive" \in called
    /\ Len(series) >= 3
    /\ ~isna(series[1]) /\ ~isna(series[2]) /\ series[1] # series[2]

\* The persistence value of position i: s[i-1], missing at the first position.
Previous(y, i) == IF i >= 2 THEN y[i - 1] ELSE NaN

\* The seasonal lag of position i (model positions count from 1) is
\* unavailable before position p + 1 and where s[i-p] is missing.
LagAvailable(y, p, i) == i - p >= 1 /\ ~isna(y[i - p])

SeasonalOrFallback ==
    \A i \in 1..Len(series) :
        out_seasonal[i] = IF LagAvailable(series, period, i)
                          THEN series[i - period]
                          ELSE Previous(series, i)

\* C7 as stated: for every series longer than the period the prediction at
\* position period is s[0] and the prediction at position period+1 (where
\* the series has one) is known; and every position takes its seasonal lag
\* where that is available and the persistence value elsewhere.
C7_AsStated ==
    "seasonal_naive" \in called =>
        /\ Len(series) > period =>
              /\ out_seasonal[period + 1] = series[1]
              /\ Len(series) > period + 1 => ~isna(out_seasonal[period + 2])
        /\ SeasonalOrFallback

\* C7 amended: the prediction at position period is s[0] when s[0] is
\* known; the prediction at position period+1 is known when s[1] or
\* s[period] is known; and every position takes its seasonal lag where that
\* is available and the persistence value elsewhere.
C7_SeasonalWithFallback ==
    "seasonal_naive" \in called =>
        /\ (Len(series) > period /\ ~isna(series[1])) =>
              out_seasonal[period + 1] = series[1]
        /\ (Len(series) > period + 1
                /\ (~isna(series[2]) \/ ~isna(series[period + 1]))) =>
              ~isna(out_seasonal[period + 2])
        /\ SeasonalOrFallback

\* seasonal_naive has returned on a series longer than period + 1 that starts
\* with a known value and has a missing seasonal lag past the first period.
C7_Witness ==
    /\ "seasonal_naive" \in called
    /\ Len(series) > period + 1
    /\ ~isna(series[1])
    /\ \E i \in (period + 1)..Len(series) :
          /\ isna(series[i - period])
          /\ ~isna(series[i - 1])
          /\ out_seasonal[i] = series[i - 1]

---------------------------------------------------------------------------
(* modeling/backtest.py and modeling/ml_regressor.py: evaluation runs      *)

\* preprocess.main from line 35 to the end: the processed dataset of an input.
processed(rows) == mark_test(build_features(normalize(rows)))

\* The processed datasets the runs are made on: 401, 400 and 366 full days,
\* 401 days with a four-day hole, and short series that are all test.
Datasets ==
    {processed(rows) :
        rows \in {RawRows(400, {}, {}), RawRows(399, {}, {}),
                  RawRows(SplitDays + 1, {}, {}),
                  RawRows(400, Interval(100, 4), {}),
                  RawRows(MedDay, {}, {}), RawRows(MedDay, {}, {0}),
                  RawRows(2, {}, {})}}

\* df[df["is_test"] == flag][name], as a series
Select(frame, name, flag) ==
    LET wanted(r) == r.is_test = flag
    IN Column(SelectSeq(frame, wanted), name)

\* series.loc[index] for the index of the rows whose is_test is flag
AtFlag(frame, col, flag) ==
    LET wanted(r) == r.t = flag
        paired == Materialize([k \in 1..Len(frame) |->
                      [v |-> col[k], t |-> frame[k].is_test]], Len(frame))
    IN Column(SelectSeq(paired, wanted), "v")

AtRows(col, rows) ==
    LET wanted(r) == r.k \in rows
        paired == Materialize([k \in 1..Len(col) |-> [v |-> col[k], k |-> k]], Len(col))
    IN Column(SelectSeq(paired, wanted), "v")

HasNaN(col) == \E i \in 1..Len(col) : isna(col[i])

\* backtest.evaluate, lines 12-15.  sklearn's mean_absolute_error and
\* mean_squared_error validate their inputs and raise ValueError on a
\* missing value and on an empty input.  rmse is the square root of the
\* mean squared error, held as [sqrt_of |-> mse].
evaluate(y_true, y_pred) ==
    IF Len(y_true) = 0 \/ HasNaN(y_true) \/ HasNaN(y_pred)
    THEN [raised |-> "ValueError", mae |-> NaN, rmse |-> [sqrt_of |-> NaN]]
    ELSE LET n == Len(y_true)
             err == Materialize([i \in 1..n |-> RSub(y_true[i], y_pred[i])], n)
             abserr == Materialize([i \in 1..n |-> RAbs(err[i])], n)
             sqerr == Materialize([i \in 1..n |-> RMul(err[i], err[i])], n)
         IN [raised |-> "",
             mae |-> RDivInt(RSum(abserr, 1, n), n),
             rmse |-> [sqrt_of |-> RDivInt(RSum(sqerr, 1, n), n)]]

\* sarima.fit_predict, lines 5-10: the fit fails without training data;
\* otherwise the library returns one prediction per date of the test range,
\* here all at one of the forecast levels.
fit_predict(train, test, level) ==
    IF Len(train) = 0
    THEN [raised |-> "FitError", preds |-> <<>>]
    ELSE [raised |-> "", preds |-> Materialize([i \in 1..Len(test) |-> level], Len(test))]

ForecastLevels == {Num(12), Num(14)}

Header == <<"model", "mae", "rmse">>

\* The variant that opens the file for writing.
append_metrics_truncating(file, record) ==
    [exists |-> TRUE, rows |-> <<Header, record>>]

\* backtest.main lines 44-49, ml_regressor.main lines 43-48: the file is
\* opened for appending; the header goes first when the file did not exist.
append_metrics(file, record) ==
    [exists |-> TRUE,
     rows |-> IF ~file.exists THEN <<Header, record>> ELSE Append(file.rows, record)]

InitEval ==
    /\ IdlePre /\ IdleFeat /\ IdleBase
    /\ dataset \in Datasets
    /\ metrics = [exists |-> FALSE, rows |-> <<>>]
    /\ history = <<>>
    /\ lastRun = [model |-> "", raised |-> "", y_true |-> <<>>, y_pred |-> <<>>,
                  mae |-> NaN]

\* The end of a run: an exception leaves the metrics file alone, metrics
\* are appended to it.  The record holds the exact values of the two
\* metrics, which the code writes with three decimals.
Finish(model, raised, y_true, y_pred, result) ==
    /\ lastRun' = [model |-> model, raised |-> raised, y_true |-> y_true,
                   y_pred |-> y_pred, mae |-> result.mae]
    /\ IF raised # ""
       THEN UNCHANGED <<metrics, history>>
       ELSE LET record == <<model, result.mae, result.rmse>>
            IN /\ metrics' = append_metrics(metrics, record)
               /\ history' = Append(history, record)
    /\ UNCHANGED <<dataset, preVars, featVars, baseVars>>

NoResult == [raised |-> "", mae |-> NaN, rmse |-> [sqrt_of |-> NaN]]

\* backtest.main, lines 26-49 (the plot that follows writes no state of the model)
Backtest(model) ==
    /\ Len(history) < MaxRuns
    /\ LET y == Column(dataset, "tavg")
           train == Select(dataset, "tavg", 0)
           test == Select(dataset, "tavg", 1)
       IN \E level \in ForecastLevels :
            LET fc == IF model = "naive"
                      THEN [raised |-> "", preds |-> AtFlag(dataset, naive(y), 1)]
                      ELSE IF model = "seasonal_naive"
                      THEN [raised |-> "",
                            preds |-> AtFlag(dataset, seasonal_naive(y, Period365), 1)]
                      ELSE fit_predict(train, test, level)
            IN IF fc.raised # ""
               THEN Finish(model, fc.raised, test, fc.preds, NoResult)
               ELSE LET result == evaluate(test, fc.preds)
                    IN Finish(model, result.raised, test, fc.preds, result)

\* ml_regressor.main, lines 22-48.  Ridge.fit raises ValueError on an empty
\* training set and on a missing target, Ridge.predict on an empty test set;
\* otherwise the library returns one prediction per scored row, here all at
\* one of the forecast levels.
RidgeMain ==
    /\ Len(history) < MaxRuns
    /\ LET y == Column(dataset, "tavg")
           ytr == AtRows(y, FitRows(dataset))
           yte == AtRows(y, ScoreRows(dataset))
       IN \E level \in ForecastLevels :
            IF Len(ytr) = 0 \/ HasNaN(ytr) \/ Len(yte) = 0
            THEN Finish("ridge_ml", "ValueError", yte, <<>>, NoResult)
            ELSE LET preds == Materialize([i \in 1..Len(yte) |-> level], Len(yte))
                     result == evaluate(yte, preds)
                 IN Finish("ridge_ml", result.raised, yte, preds, result)

NextEval ==
    \/ \E model \in {"naive", "seasonal_naive", "sarima"} : Backtest(model)
    \/ RidgeMain

SpecEval == InitEval /\ [][NextEval]_vars

\* The positions of the last run's aligned pairs with both sides known.
KnownPairs ==
    {i \in 1..Len(lastRun.y_true) :
        ~isna(lastRun.y_true[i]) /\ ~isna(lastRun.y_pred[i])}

MaeOver(pairs) ==
    LET n == Len(lastRun.y_true)
        abserr == Materialize([i \in 1..n |->
                    IF i \in pairs
                    THEN RAbs(RSub(lastRun.y_true[i], lastRun.y_pred[i]))
                    ELSE Num(0)], n)
    IN RDivInt(RSum(abserr, 1, n), Cardinality(pairs))

\* C5: a backtest of a baseline whose aligned pairs include missing values
\* still ends with metrics, the mean absolute error being taken over the
\* pairs with both sides known; no missing value makes the run fail.
C5_EvaluateSkipsNulls ==
    (lastRun.model \in {"naive", "seasonal_naive"} /\ KnownPairs # {}) =>
        /\ lastRun.raised = ""
        /\ lastRun.mae = MaeOver(KnownPairs)

LogMatchesHistory ==
    IF metrics.exists
    THEN metrics.rows = <<Header>> \o history /\ Len(history) >= 1
    ELSE metrics.rows = <<>> /\ history = <<>>

AppendOnlyStep ==
    \/ UNCHANGED <<metrics, history>>
    \/ /\ metrics'.exists
       /\ Len(history') = Len(history) + 1
       /\ Len(metrics'.rows) = Len(metrics.rows) + (IF metrics.exists THEN 1 ELSE 2)
       /\ metrics.exists => SubSeq(metrics'.rows, 1, Len(metrics.rows)) = metrics.rows
       /\ ~metrics.exists => metrics'.rows[1] = Header
       /\ metrics'.rows[Len(metrics'.rows)] = history'[Len(history')]
       /\ \A i \in 2..Len(metrics'.rows) : metrics'.rows[i] # Header

\* C8: the metrics file is the header followed by one record per run that
\* got to write, in run order; a run writes the header only when the file
\* was absent, appends one record and leaves every earlier row as it was.
C8_AppendOnlyLog ==
    /\ []LogMatchesHistory
    /\ [][AppendOnlyStep]_vars

\* Three runs of different kinds have written to the file.
C8_Witness ==
    /\ Len(history) >= 3
    /\ history[1][1] = "naive"
    /\ history[2][1] = "ridge_ml"
    /\ history[3][1] = "sarima"

====
